---- MODULE Spec2Model ----
(***************************************************************************)
(* Model of swat/config.py: the SWAT option registrations, their domain    *)
(* validators (set_tkpath, check_severity, check_string_list), the TK path *)
(* default factory (_initialize_tkpath), and the option registry engine of *)
(* swat.utils.config that they are registered into (register_option,       *)
(* set_option, reset_option, option_context and the primitive checkers).   *)
(*                                                                         *)
(* Python values are tagged records; strings are tuples of one-character   *)
(* strings, so that prefix tests, lower-casing and integer parsing are     *)
(* computed and not assumed.                                               *)
(***************************************************************************)
EXTENDS Integers, Sequences, FiniteSets, TLC

(***************************************************************************)
(* Python values                                                           *)
(***************************************************************************)
None == [t |-> "None"]
PyInt(i) == [t |-> "int", i |-> i]
Str(s) == [t |-> "str", s |-> s]
PyList(items) == [t |-> "list", items |-> items]
PyTuple(items) == [t |-> "tuple", items |-> items]

IsContainer(val) == val.t \in {"list", "set", "tuple"}

\* a validator either returns a value or raises; tk lists the arguments of
\* the InitializeTK calls it made on the way
Returns(val, tk) == [ok |-> TRUE, val |-> val, tk |-> tk]
Raises(tk) == [ok |-> FALSE, val |-> None, tk |-> tk]

(***************************************************************************)
(* String literals of the source and of the inputs                         *)
(***************************************************************************)
S_localhost == <<"l", "o", "c", "a", "l", "h", "o", "s", "t">>
S_auto == <<"a", "u", "t", "o">>
S_cas == <<"c", "a", "s">>
S_http == <<"h", "t", "t", "p">>
S_https == <<"h", "t", "t", "p", "s">>
S_ftp == <<"f", "t", "p">>
S_Index == <<"_", "I", "n", "d", "e", "x", "_">>
S_win == <<"w", "i", "n">>
S_darwin == <<"d", "a", "r", "w", "i", "n">>
S_mac == <<"m", "a", "c">>
S_linux == <<"l", "i", "n", "u", "x">>
S_lib == <<"l", "i", "b">>
S_win32 == <<"w", "i", "n", "3", "2">>
S_cygwin == <<"c", "y", "g", "w", "i", "n">>
S_myhost == <<"m", "y", "h", "o", "s", "t">>
S_h2 == <<"h", "2">>
S_8080 == <<"8", "0", "8", "0">>
S_5570 == <<"5", "5", "7", "0">>
S_abc == <<"a", "b", "c">>
S_opt_tk == <<"/", "o", "p", "t", "/", "t", "k">>
S_usr_tk == <<"/", "u", "s", "r", "/", "t", "k">>
S_a == <<"a">>
S_b == <<"b">>

(***************************************************************************)
(* String helpers                                                          *)
(***************************************************************************)
LowerChar(c) ==
    CASE c = "A" -> "a" [] c = "B" -> "b" [] c = "C" -> "c" [] c = "D" -> "d"
      [] c = "E" -> "e" [] c = "F" -> "f" [] c = "G" -> "g" [] c = "H" -> "h"
      [] c = "I" -> "i" [] c = "J" -> "j" [] c = "K" -> "k" [] c = "L" -> "l"
      [] c = "M" -> "m" [] c = "N" -> "n" [] c = "O" -> "o" [] c = "P" -> "p"
      [] c = "Q" -> "q" [] c = "R" -> "r" [] c = "S" -> "s" [] c = "T" -> "t"
      [] c = "U" -> "u" [] c = "V" -> "v" [] c = "W" -> "w" [] c = "X" -> "x"
      [] c = "Y" -> "y" [] c = "Z" -> "z" [] OTHER -> c

lower(s) == [i \in 1..Len(s) |-> LowerChar(s[i])]

startswith(s, prefix) ==
    /\ Len(s) >= Len(prefix)
    /\ SubSeq(s, 1, Len(prefix)) = prefix

Digits == {"0", "1", "2", "3", "4", "5", "6", "7", "8", "9"}

DigitVal(c) ==
    CASE c = "0" -> 0 [] c = "1" -> 1 [] c = "2" -> 2 [] c = "3" -> 3
      [] c = "4" -> 4 [] c = "5" -> 5 [] c = "6" -> 6 [] c = "7" -> 7
      [] c = "8" -> 8 [] c = "9" -> 9

RECURSIVE DigitsVal(_)
DigitsVal(s) ==
    IF s = <<>> THEN 0
    ELSE 10 * DigitsVal(SubSeq(s, 1, Len(s) - 1)) + DigitVal(s[Len(s)])

AllDigits(s) == s # <<>> /\ \A i \in 1..Len(s) : s[i] \in Digits

\* int(s) for a string s: an optional sign followed by decimal digits
IntLiteral(s) ==
    \/ AllDigits(s)
    \/ Len(s) > 1 /\ s[1] \in {"-", "+"} /\ AllDigits(Tail(s))

ParseInt(s) ==
    IF s[1] = "-" THEN 0 - DigitsVal(Tail(s))
    ELSE IF s[1] = "+" THEN DigitsVal(Tail(s))
    ELSE DigitsVal(s)

(***************************************************************************)
(* Primitive checkers of swat.utils.config                                 *)
(***************************************************************************)
\* check_string(value): any string is accepted and returned
check_string(value) ==
    IF value.t = "str" THEN Returns(value, <<>>) ELSE Raises(<<>>)

\* check_string(value, valid_values=...): case-sensitive exact match
check_string_in(value, valid_values) ==
    IF value.t = "str" /\ value.s \in valid_values
    THEN Returns(value, <<>>)
    ELSE Raises(<<>>)

\* check_int(value, minimum=..., maximum=...): integers and integer-valued
\* strings; a bound of None is no bound, other bounds are inclusive
check_int(value, minimum, maximum) ==
    LET convertible == \/ value.t = "int"
                       \/ value.t = "str" /\ IntLiteral(value.s)
        out == IF value.t = "int" THEN value.i ELSE ParseInt(value.s)
    IN  IF ~convertible THEN Raises(<<>>)
        ELSE IF minimum # None /\ out < minimum.i THEN Raises(<<>>)
        ELSE IF maximum # None /\ out > maximum.i THEN Raises(<<>>)
        ELSE Returns(PyInt(out), <<>>)

(***************************************************************************)
(* swat/config.py: TK options                                              *)
(***************************************************************************)
\* a2n(path, 'utf-8'): the native string handed to the C extension
a2n(path) == [t |-> "native", s |-> path.s]

set_tkpath_native(val) ==
    IF val = None THEN Returns(None, <<>>)
    ELSE LET path == check_string(val)
         IN  IF ~path.ok THEN Raises(<<>>)
             ELSE Returns(a2n(path.val), <<a2n(path.val)>>)

set_tkpath_eager(val) ==
    IF val = None THEN Returns(None, <<>>)
    ELSE LET path == check_string(val)
         IN  IF ~path.ok THEN Raises(<<a2n(Str(<<>>))>>)
             ELSE Returns(path.val, <<a2n(path.val)>>)

set_tkpath(val) ==
    IF val = None THEN Returns(None, <<>>)
    ELSE LET path == check_string(val)
         IN  IF ~path.ok THEN Raises(<<>>)
             ELSE Returns(path.val, <<a2n(path.val)>>)

EnvNames == {"TKPATH", "CASHOST", "CASPORT", "CASPROTOCOL"}
LibDirs == {S_win, S_mac, S_linux}
NoDir == 0 - 1
MinTkFiles == 20

\* os.path.abspath(os.path.join(os.path.dirname(__file__), 'lib', platform))
PkgDir == <<"/", "s", "w", "a", "t">>
LibPath(plat) == Str(PkgDir \o <<"/">> \o S_lib \o <<"/">> \o plat)

_initialize_tkpath_ge(env, sysplatform, listing) ==
    IF env["TKPATH"] # None THEN env["TKPATH"]
    ELSE LET plat == IF startswith(lower(sysplatform), S_win) THEN S_win
                     ELSE IF startswith(lower(sysplatform), S_darwin) THEN S_mac
                     ELSE S_linux
         IN  IF listing[plat] # NoDir /\ listing[plat] >= MinTkFiles
             THEN LibPath(plat)
             ELSE None

_initialize_tkpath(env, sysplatform, listing) ==
    IF env["TKPATH"] # None THEN env["TKPATH"]
    ELSE LET plat == IF startswith(lower(sysplatform), S_win) THEN S_win
                     ELSE IF startswith(lower(sysplatform), S_darwin) THEN S_mac
                     ELSE S_linux
         IN  IF listing[plat] # NoDir /\ listing[plat] > MinTkFiles
             THEN LibPath(plat)
             ELSE None

(***************************************************************************)
(* swat/config.py: CAS options                                             *)
(***************************************************************************)
CasProtocolValues_ftp == {S_auto, S_cas, S_http, S_https, S_ftp}

CasProtocolValues == {S_auto, S_cas, S_http, S_https}

check_severity_max3(sev) ==
    IF sev = None THEN Returns(None, <<>>)
    ELSE check_int(sev, PyInt(0), PyInt(3))

check_severity_noreturn(sev) ==
    IF sev = None THEN Returns(None, <<>>)
    ELSE LET r == check_int(sev, PyInt(0), PyInt(2))
         IN  IF r.ok THEN Returns(None, <<>>) ELSE r

check_severity(sev) ==
    IF sev = None THEN Returns(None, <<>>)
    ELSE check_int(sev, PyInt(0), PyInt(2))

RECURSIVE ItemsAreStrings(_)
ItemsAreStrings(items) ==
    IF items = <<>> THEN TRUE
    ELSE check_string(Head(items)).ok /\ ItemsAreStrings(Tail(items))

check_string_list_aslist(val) ==
    IF IsContainer(val)
    THEN IF ItemsAreStrings(val.items) THEN Returns(PyList(val.items), <<>>)
         ELSE Raises(<<>>)
    ELSE check_string(val)

check_string_list_nocheck(val) ==
    IF IsContainer(val) THEN Returns(val, <<>>) ELSE check_string(val)

check_string_list(val) ==
    IF IsContainer(val)
    THEN IF ItemsAreStrings(val.items) THEN Returns(val, <<>>)
         ELSE Raises(<<>>)
    ELSE check_string(val)

(***************************************************************************)
(* swat/config.py: the registrations, in source order                      *)
(***************************************************************************)
Options == <<"tkpath", "cas.hostname", "cas.port", "cas.protocol",
             "cas.exception_on_severity", "cas.dataset.index_name">>

OptionNames == {Options[i] : i \in 1..Len(Options)}

\* the validator argument of each register_option call
OptionValidator(name, val) ==
    CASE name = "tkpath" -> set_tkpath(val)
      [] name = "cas.hostname" -> check_string(val)
      [] name = "cas.port" -> check_int(val, None, None)
      [] name = "cas.protocol" -> check_string_in(val, CasProtocolValues)
      [] name = "cas.exception_on_severity" -> check_severity(val)
      [] name = "cas.dataset.index_name" -> check_string_list(val)

NoEnviron == ""

OptionEnviron_swapped(name) ==
    CASE name = "cas.hostname" -> "CASHOST"
      [] name = "cas.port" -> "CASPROTOCOL"
      [] name = "cas.protocol" -> "CASPORT"
      [] OTHER -> NoEnviron

\* the environ argument of each register_option call
OptionEnviron(name) ==
    CASE name = "cas.hostname" -> "CASHOST"
      [] name = "cas.port" -> "CASPORT"
      [] name = "cas.protocol" -> "CASPROTOCOL"
      [] OTHER -> NoEnviron

OptionDefault_http(name, env, sysplatform, listing) ==
    CASE name = "tkpath" -> _initialize_tkpath(env, sysplatform, listing)
      [] name = "cas.hostname" -> Str(S_localhost)
      [] name = "cas.port" -> PyInt(0)
      [] name = "cas.protocol" -> Str(S_http)
      [] name = "cas.exception_on_severity" -> None
      [] name = "cas.dataset.index_name" -> Str(S_Index)

\* the default argument of each register_option call; the tkpath default is
\* the value of the call _initialize_tkpath() made at that point
OptionDefault(name, env, sysplatform, listing) ==
    CASE name = "tkpath" -> _initialize_tkpath(env, sysplatform, listing)
      [] name = "cas.hostname" -> Str(S_localhost)
      [] name = "cas.port" -> PyInt(0)
      [] name = "cas.protocol" -> Str(S_auto)
      [] name = "cas.exception_on_severity" -> None
      [] name = "cas.dataset.index_name" -> Str(S_Index)

(***************************************************************************)
(* swat.utils.config: the registry engine                                  *)
(***************************************************************************)
\* register_option: the initial value is the validated environment value
\* when the declared variable is present, else the validated default
register_option(name, env, sysplatform, listing) ==
    LET var == OptionEnviron(name)
    IN  IF var # NoEnviron /\ env[var] # None
        THEN OptionValidator(name, env[var])
        ELSE OptionValidator(name, OptionDefault(name, env, sysplatform, listing))

\* importing swat.config runs the registrations in order; the first one
\* that raises ends the import
RECURSIVE ImportFrom(_, _, _, _, _, _)
ImportFrom(i, vals, tk, env, sysplatform, listing) ==
    IF i > Len(Options) THEN [ok |-> TRUE, vals |-> vals, tk |-> tk]
    ELSE LET name == Options[i]
             r == register_option(name, env, sysplatform, listing)
         IN  IF ~r.ok THEN [ok |-> FALSE, vals |-> vals, tk |-> tk \o r.tk]
             ELSE ImportFrom(i + 1, vals @@ (name :> r.val), tk \o r.tk,
                             env, sysplatform, listing)

EmptyRegistry == [n \in {} |-> None]

(***************************************************************************)
(* State                                                                   *)
(***************************************************************************)
VARIABLES
    pc,         \* "start" before swat.config is imported, then "ready" or
                \* "failed" (a registration raised)
    environ,    \* os.environ: variable name -> Str(...) or None when absent
    environ0,   \* os.environ as it was when swat.config was imported
    platform,   \* sys.platform
    listing,    \* lib/<platform> -> number of entries, NoDir if no directory
    defaults,   \* option name -> the default kept by its descriptor
    values,     \* option name -> current value
    stack,      \* the active option_context frames, innermost last; a frame
                \* is a sequence of [name, prev] records
    snap,       \* for each active frame, the registry values at its entry
    tkLog,      \* the InitializeTK calls made by the latest operation
    last        \* the latest operation and whether it returned or raised

vars == <<pc, environ, environ0, platform, listing, defaults, values, stack,
          snap, tkLog, last>>

(***************************************************************************)
(* Bounds and inputs                                                       *)
(***************************************************************************)
MaxDepth == 2

Platforms == {S_win32, S_darwin, S_linux, S_cygwin}

DirSizes == {NoDir, MinTkFiles, MinTkFiles + 1}

EnvValues(var) ==
    CASE var = "TKPATH" -> {None, Str(S_opt_tk)}
      [] var = "CASHOST" -> {None, Str(S_myhost)}
      [] var = "CASPORT" -> {None, Str(S_8080), Str(S_abc)}
      [] var = "CASPROTOCOL" -> {None, Str(S_https), Str(S_ftp)}

NoEnv == [var \in EnvNames |-> None]

FullEnv == [var \in EnvNames |->
              CASE var = "TKPATH" -> Str(S_opt_tk)
                [] var = "CASHOST" -> Str(S_myhost)
                [] var = "CASPORT" -> Str(S_8080)
                [] var = "CASPROTOCOL" -> Str(S_https)]

NoLib == [d \in LibDirs |-> NoDir]

LinuxLib == [d \in LibDirs |-> IF d = S_linux THEN MinTkFiles + 1 ELSE NoDir]

\* the values handed to set_option, per option
Raws(name) ==
    CASE name = "tkpath" -> {None, Str(S_usr_tk), PyInt(42)}
      [] name = "cas.hostname" -> {Str(S_h2), PyInt(42)}
      [] name = "cas.port" -> {Str(S_5570), Str(S_abc)}
      [] name = "cas.protocol" -> {Str(S_http), Str(S_ftp)}
      [] name = "cas.exception_on_severity" ->
            {None, PyInt(0), PyInt(1), PyInt(2), PyInt(3), PyInt(0 - 1)}
      [] name = "cas.dataset.index_name" ->
            {PyTuple(<<Str(S_a), Str(S_b)>>), PyList(<<Str(S_a), PyInt(42)>>)}

EnvPuts == {<<"CASHOST", Str(S_h2)>>}

EnvDels == {"CASPORT"}

ImportEnvPuts == {<<"TKPATH", Str(S_usr_tk)>>}

ImportEnvDels == {"TKPATH"}

Pair(name, value) == [name |-> name, value |-> value]

ScopeNames == {"cas.exception_on_severity", "cas.dataset.index_name"}

ScopeRaws(name) ==
    CASE name = "cas.exception_on_severity" -> {PyInt(0), PyInt(3)}
      [] name = "cas.dataset.index_name" -> {PyTuple(<<Str(S_a), Str(S_b)>>)}

\* the argument lists handed to option_context
Overrides ==
    { <<Pair("cas.exception_on_severity", PyInt(1))>>,
      <<Pair("tkpath", Str(S_usr_tk)),
        Pair("cas.exception_on_severity", PyInt(2))>>,
      <<Pair("cas.exception_on_severity", PyInt(1)),
        Pair("cas.dataset.index_name", Str(S_b))>>,
      <<Pair("cas.exception_on_severity", PyInt(2)),
        Pair("cas.dataset.index_name", PyList(<<Str(S_a), PyInt(42)>>))>>,
      <<Pair("cas.dataset.index_name", Str(S_b)),
        Pair("cas.exception_on_severity", PyInt(3))>> }

Op(op, name, ok) == [op |-> op, name |-> name, ok |-> ok]

(***************************************************************************)
(* Initial states                                                          *)
(***************************************************************************)
InitCommon ==
    /\ pc = "start"
    /\ environ0 = environ
    /\ defaults = EmptyRegistry
    /\ values = EmptyRegistry
    /\ stack = <<>>
    /\ snap = <<>>
    /\ tkLog = <<>>
    /\ last = Op("none", "", TRUE)

Init ==
    /\ environ \in {NoEnv, FullEnv}
    /\ platform = S_linux
    /\ listing \in {NoLib, LinuxLib}
    /\ InitCommon

InitScope ==
    /\ environ \in {NoEnv, FullEnv}
    /\ platform = S_linux
    /\ listing = NoLib
    /\ InitCommon

InitImport ==
    /\ environ \in {e \in [EnvNames -> UNION {EnvValues(v) : v \in EnvNames}] :
                       \A v \in EnvNames : e[v] \in EnvValues(v)}
    /\ platform \in Platforms
    /\ listing \in [LibDirs -> DirSizes]
    /\ InitCommon

(***************************************************************************)
(* Operations                                                              *)
(***************************************************************************)
\* import swat.config: every register_option call of the module, in order
Import ==
    /\ pc = "start"
    /\ LET r == ImportFrom(1, EmptyRegistry, <<>>, environ, platform, listing)
       IN  /\ pc' = IF r.ok THEN "ready" ELSE "failed"
           /\ values' = r.vals
           /\ defaults' = r.vals
           /\ tkLog' = r.tk
           /\ last' = Op("import", "", r.ok)
    /\ environ0' = environ
    /\ UNCHANGED <<environ, platform, listing, stack, snap>>

\* set_option(name, raw): validate, then store the validator's result
set_option(vals, name, raw) ==
    LET r == OptionValidator(name, raw)
    IN  [ok |-> r.ok,
         vals |-> IF r.ok THEN [vals EXCEPT ![name] = r.val] ELSE vals,
         tk |-> r.tk]

Set(name, raw) ==
    /\ pc = "ready"
    /\ LET r == set_option(values, name, raw)
       IN  /\ values' = r.vals
           /\ tkLog' = r.tk
           /\ last' = Op("set", name, r.ok)
    /\ UNCHANGED <<pc, environ, environ0, platform, listing, defaults, stack,
                   snap>>

\* reset_option(name): set the option to its descriptor's default
Reset(name) ==
    /\ pc = "ready"
    /\ LET r == set_option(values, name, defaults[name])
       IN  /\ values' = r.vals
           /\ tkLog' = r.tk
           /\ last' = Op("reset", name, r.ok)
    /\ UNCHANGED <<pc, environ, environ0, platform, listing, defaults, stack,
                   snap>>

\* os.environ[var] = val, after the import
Putenv(var, val) ==
    /\ pc = "ready"
    /\ environ[var] # val
    /\ environ' = [environ EXCEPT ![var] = val]
    /\ tkLog' = <<>>
    /\ last' = Op("putenv", var, TRUE)
    /\ UNCHANGED <<pc, environ0, platform, listing, defaults, values, stack,
                   snap>>

\* del os.environ[var], after the import
Unsetenv(var) ==
    /\ pc = "ready"
    /\ environ[var] # None
    /\ environ' = [environ EXCEPT ![var] = None]
    /\ tkLog' = <<>>
    /\ last' = Op("unsetenv", var, TRUE)
    /\ UNCHANGED <<pc, environ0, platform, listing, defaults, values, stack,
                   snap>>

\* option_context, validation: every value goes through its option's
\* validator, in argument order, before anything is stored; the first
\* validator that raises ends the invocation
RECURSIVE ValidateAll(_, _, _, _)
ValidateAll(pairs, i, norm, tk) ==
    IF i > Len(pairs) THEN [ok |-> TRUE, norm |-> norm, tk |-> tk]
    ELSE LET r == OptionValidator(pairs[i].name, pairs[i].value)
         IN  IF ~r.ok THEN [ok |-> FALSE, norm |-> norm, tk |-> tk \o r.tk]
             ELSE ValidateAll(pairs, i + 1, Append(norm, r.val), tk \o r.tk)

\* option_context, application: the validated values are stored in
\* argument order
RECURSIVE ApplyAll(_, _, _, _)
ApplyAll(vals, pairs, norm, i) ==
    IF i > Len(pairs) THEN vals
    ELSE ApplyAll([vals EXCEPT ![pairs[i].name] = norm[i]], pairs, norm, i + 1)

\* option_context, capture: the previous value of every named option, read
\* before any of them is applied
CaptureFrame(vals, pairs) ==
    [j \in 1..Len(pairs) |-> [name |-> pairs[j].name, prev |-> vals[pairs[j].name]]]

\* entering the scope
Enter(pairs) ==
    /\ pc = "ready"
    /\ Len(stack) < MaxDepth
    /\ LET v == ValidateAll(pairs, 1, <<>>, <<>>)
       IN  /\ tkLog' = v.tk
           /\ last' = Op("enter", "", v.ok)
           /\ IF v.ok
              THEN /\ values' = ApplyAll(values, pairs, v.norm, 1)
                   /\ stack' = Append(stack, CaptureFrame(values, pairs))
                   /\ snap' = Append(snap, values)
              ELSE UNCHANGED <<values, stack, snap>>
    /\ UNCHANGED <<pc, environ, environ0, platform, listing, defaults>>

\* option_context, restoration: the recorded pairs are set back through
\* set_option, last applied first
RECURSIVE RestoreFrom(_, _, _, _)
RestoreFrom(vals, frame, i, tk) ==
    IF i < 1 THEN [ok |-> TRUE, vals |-> vals, tk |-> tk]
    ELSE LET r == set_option(vals, frame[i].name, frame[i].prev)
         IN  IF ~r.ok THEN [ok |-> FALSE, vals |-> r.vals, tk |-> tk \o r.tk]
             ELSE RestoreFrom(r.vals, frame, i - 1, tk \o r.tk)

\* leaving the innermost scope, at the end of the block ("exit") or when an
\* error raised inside the block unwinds through it ("unwind")
Exit(how) ==
    /\ pc = "ready"
    /\ stack # <<>>
    /\ LET frame == stack[Len(stack)]
           r == RestoreFrom(values, frame, Len(frame), <<>>)
       IN  /\ values' = r.vals
           /\ tkLog' = r.tk
           /\ last' = Op(how, "", r.ok)
    /\ stack' = SubSeq(stack, 1, Len(stack) - 1)
    /\ snap' = SubSeq(snap, 1, Len(snap) - 1)
    /\ UNCHANGED <<pc, environ, environ0, platform, listing, defaults>>

(***************************************************************************)
(* Specifications                                                          *)
(***************************************************************************)
\* the registry: import, set_option, reset_option, and the environment
\* changing after the import
Next ==
    \/ Import
    \/ \E name \in OptionNames : \E raw \in Raws(name) : Set(name, raw)
    \/ \E name \in OptionNames : Reset(name)
    \/ \E p \in EnvPuts : Putenv(p[1], p[2])
    \/ \E var \in EnvDels : Unsetenv(var)

Spec == Init /\ [][Next]_vars

\* the import alone, over every environment, platform and lib directory
NextImport ==
    \/ Import
    \/ \E p \in ImportEnvPuts : Putenv(p[1], p[2])
    \/ \E var \in ImportEnvDels : Unsetenv(var)

SpecImport == InitImport /\ [][NextImport]_vars

\* scoped overrides, with set_option and reset_option inside and around
NextScope ==
    \/ Import
    \/ \E pairs \in Overrides : Enter(pairs)
    \/ Exit("exit")
    \/ Exit("unwind")
    \/ \E name \in ScopeNames : \E raw \in ScopeRaws(name) : Set(name, raw)
    \/ \E name \in ScopeNames : Reset(name)

SpecScope == InitScope /\ [][NextScope]_vars

(***************************************************************************)
(* Properties                                                              *)
(***************************************************************************)
Valid(name, raw) == OptionValidator(name, raw).ok

\* the step just taken is operation op on name
Did(op, name) == last'.op = op /\ last'.name = name

Normalized(name, raw) == OptionValidator(name, raw).val

SEV == "cas.exception_on_severity"

IDX == "cas.dataset.index_name"

BadList == PyList(<<Str(S_a), PyInt(42)>>)

\* C1: set(name, v) with v valid for the option's validator makes get(name)
\* return validator(v); with v invalid it raises and get(name) returns what
\* it returned before; set('cas.protocol', 'ftp') is such a failing call, and
\* set('cas.port', '5570') stores the integer 5570
C1_SetThenGet ==
    [][ /\ \A name \in OptionNames : \A raw \in Raws(name) :
             (Did("set", name) /\ Set(name, raw)) =>
                IF Valid(name, raw)
                THEN last'.ok /\ values'[name] = Normalized(name, raw)
                ELSE ~last'.ok /\ values' = values
        /\ (Did("set", "cas.protocol") /\ Set("cas.protocol", Str(S_ftp))) =>
                ~last'.ok /\ values'["cas.protocol"] = values["cas.protocol"]
        /\ (Did("set", "cas.port") /\ Set("cas.port", Str(S_5570))) =>
                last'.ok /\ values'["cas.port"] = PyInt(5570) ]_vars

C1_Witness ==
    /\ pc = "ready"
    /\ last = Op("set", "cas.protocol", FALSE)
    /\ values["cas.protocol"] = Str(S_https)

\* C2: every registered option's current value v satisfies
\* validator(v) = v; tkpath holds None or a string, the severity option None
\* or an integer 0..2, the index name a string or a container of strings
C2_ValuesAreNormalized ==
    /\ \A name \in DOMAIN values :
          /\ Valid(name, values[name])
          /\ Normalized(name, values[name]) = values[name]
    /\ "tkpath" \in DOMAIN values =>
          values["tkpath"].t \in {"None", "str"}
    /\ SEV \in DOMAIN values =>
          \/ values[SEV] = None
          \/ values[SEV].t = "int" /\ values[SEV].i \in 0..2
    /\ IDX \in DOMAIN values =>
          \/ values[IDX].t = "str"
          \/ /\ IsContainer(values[IDX])
             /\ \A j \in 1..Len(values[IDX].items) : values[IDX].items[j].t = "str"

C2_Witness ==
    /\ pc = "ready"
    /\ last.op = "exit"
    /\ values["tkpath"] = Str(S_opt_tk)
    /\ values[SEV] = PyInt(0)
    /\ values[IDX] = PyTuple(<<Str(S_a), Str(S_b)>>)

FrameNames(frame) == {frame[j].name : j \in 1..Len(frame)}

\* C3: when a scoped override block is left, at its end or by an error
\* raised inside it, every option named in the override reads back the value
\* it had when the block was entered, whatever was set inside the block
C3_ExitRestoresEntryValues ==
    [][ \A how \in {"exit", "unwind"} :
          (Did(how, "") /\ Exit(how)) =>
             /\ last'.ok
             /\ \A name \in FrameNames(stack[Len(stack)]) :
                   values'[name] = snap[Len(snap)][name] ]_vars

C3_Witness ==
    /\ pc = "ready"
    /\ last.op = "unwind"
    /\ stack = <<>>
    /\ values[SEV] = PyInt(0)
    /\ values[IDX] = PyTuple(<<Str(S_a), Str(S_b)>>)

HasInvalidPair(pairs) ==
    \E j \in 1..Len(pairs) :
       \/ ~Valid(pairs[j].name, pairs[j].value)
       \/ pairs[j] = Pair(SEV, PyInt(3))
       \/ pairs[j] = Pair(IDX, BadList)

\* C4: if any pair of one scoped-override invocation fails its validator
\* (severity 3, or an index name list holding a non-string), the invocation
\* raises, no frame becomes active, and every option of the registry keeps
\* its pre-call value
C4_EnterAllOrNothing ==
    [][ \A pairs \in Overrides :
          (Did("enter", "") /\ Enter(pairs) /\ HasInvalidPair(pairs)) =>
             /\ ~last'.ok
             /\ values' = values
             /\ stack' = stack ]_vars

C4_Witness ==
    /\ pc = "ready"
    /\ last = Op("enter", "", FALSE)
    /\ values[SEV] = None
    /\ values[IDX] = Str(S_Index)

\* the value an invocation gives to name: that of its last pair for name
Override(pairs, name) ==
    LET js == {j \in 1..Len(pairs) : pairs[j].name = name}
    IN  pairs[CHOOSE j \in js : \A k \in js : k <= j].value

PairNames(pairs) == {pairs[j].name : j \in 1..Len(pairs)}

\* C5: scopes nest: a scope entered inside another makes its options read
\* the values it was given; leaving it restores its own options to what
\* they read when it was entered, leaves every other option and the outer
\* frames alone; leaving the outermost scope restores the values from
\* before it began
C5_ScopesNest ==
    [][ /\ \A pairs \in Overrides :
             (Did("enter", "") /\ Enter(pairs) /\ ~HasInvalidPair(pairs)) =>
                /\ Len(stack') = Len(stack) + 1
                /\ \A name \in PairNames(pairs) :
                      values'[name] = Override(pairs, name)
        /\ \A how \in {"exit", "unwind"} :
             (Did(how, "") /\ Exit(how)) =>
                /\ \A name \in FrameNames(stack[Len(stack)]) :
                      values'[name] = snap[Len(snap)][name]
                /\ \A name \in OptionNames \ FrameNames(stack[Len(stack)]) :
                      values'[name] = values[name]
                /\ stack' = SubSeq(stack, 1, Len(stack) - 1) ]_vars

C5_Witness ==
    /\ pc = "ready"
    /\ last.op = "exit"
    /\ Len(stack) = 1
    /\ stack[1] = <<[name |-> SEV, prev |-> None]>>
    /\ values[SEV] = PyInt(1)

\* the environment variable and the static default the options are
\* documented with
DeclaredEnviron(name) ==
    CASE name = "cas.hostname" -> "CASHOST"
      [] name = "cas.port" -> "CASPORT"
      [] name = "cas.protocol" -> "CASPROTOCOL"
      [] OTHER -> NoEnviron

StaticDefault(name) ==
    CASE name = "cas.hostname" -> Str(S_localhost)
      [] name = "cas.port" -> PyInt(0)
      [] name = "cas.protocol" -> Str(S_auto)
      [] name = SEV -> None
      [] name = IDX -> Str(S_Index)

\* the value registration resolves for name in the environment env
Resolved(name, env) ==
    IF name = "tkpath" THEN _initialize_tkpath(env, platform, listing)
    ELSE IF DeclaredEnviron(name) # NoEnviron /\ env[DeclaredEnviron(name)] # None
    THEN Normalized(name, env[DeclaredEnviron(name)])
    ELSE StaticDefault(name)

\* C6: reset(name) returns the option to its registration-time resolved
\* value: the validated value of its environment variable as it was at
\* registration if it was present then, else the default; the environment
\* as it is at the time of the reset plays no part
C6_ResetReplaysRegistration ==
    [][ \A name \in OptionNames :
          (Did("reset", name) /\ Reset(name)) =>
             /\ last'.ok
             /\ values'[name] = Resolved(name, environ0) ]_vars

C6_Witness ==
    /\ pc = "ready"
    /\ last = Op("reset", "cas.port", TRUE)
    /\ environ0["CASPORT"] = Str(S_8080)
    /\ environ["CASPORT"] = None
    /\ values["cas.port"] = PyInt(8080)

EnvOptions == {"cas.hostname", "cas.port", "cas.protocol"}

\* C7: after the import, cas.hostname, cas.port and cas.protocol hold the
\* validated value of CASHOST, CASPORT and CASPROTOCOL when the variable was
\* set, else 'localhost', 0 and 'auto'; an environment value that fails the
\* validator makes the registration raise and leaves the option
\* unregistered
C7_EnvironPrecedence ==
    pc # "start" =>
       /\ \A name \in EnvOptions \cap DOMAIN values :
             values[name] = Resolved(name, environ0)
       /\ environ0["CASPORT"] = Str(S_8080) /\ "cas.port" \in DOMAIN values
             => values["cas.port"] = PyInt(8080)
       /\ pc = "failed" <=>
             \E name \in EnvOptions :
                /\ environ0[DeclaredEnviron(name)] # None
                /\ ~Valid(name, environ0[DeclaredEnviron(name)])
       /\ \A name \in EnvOptions :
             /\ environ0[DeclaredEnviron(name)] # None
             /\ ~Valid(name, environ0[DeclaredEnviron(name)])
             => name \notin DOMAIN values
       /\ environ0["CASPROTOCOL"] = Str(S_ftp) => pc = "failed"

C7_Witness ==
    /\ pc = "ready"
    /\ environ0["CASHOST"] = None
    /\ values["cas.hostname"] = Str(S_localhost)
    /\ values["cas.port"] = PyInt(8080)
    /\ values["cas.protocol"] = Str(S_https)

\* C8: InitializeTK is called exactly once, with the accepted path, when a
\* non-None tkpath value is accepted at registration or by set; it is not
\* called when the value is None or fails string validation
C8_InitializeTKOncePerAcceptance ==
    [][ /\ (Did("import", "") /\ Import) =>
             LET path == _initialize_tkpath(environ, platform, listing)
             IN  tkLog' = IF path = None THEN <<>> ELSE <<a2n(path)>>
        /\ \A raw \in Raws("tkpath") :
             (Did("set", "tkpath") /\ Set("tkpath", raw)) =>
                IF raw = None THEN last'.ok /\ tkLog' = <<>>
                ELSE IF raw.t # "str" THEN ~last'.ok /\ tkLog' = <<>>
                ELSE /\ last'.ok
                     /\ tkLog' = <<a2n(raw)>>
                     /\ values'["tkpath"] = raw ]_vars

C8_Witness ==
    /\ pc = "ready"
    /\ last = Op("set", "tkpath", TRUE)
    /\ values["tkpath"] = Str(S_usr_tk)
    /\ tkLog = <<a2n(Str(S_usr_tk))>>

\* C9: check_severity returns None for None, accepts 0, 1 and 2 and fails
\* for the integers outside 0..2; the option starts as None and a failed
\* set leaves it at its previous value
C9_SeverityRange ==
    [][ /\ check_severity(None) = Returns(None, <<>>)
        /\ \A i \in (0 - 3)..5 :
             IF i \in 0..2
             THEN check_severity(PyInt(i)) = Returns(PyInt(i), <<>>)
             ELSE ~check_severity(PyInt(i)).ok
        /\ (Did("import", "") /\ Import /\ pc' = "ready") => values'[SEV] = None
        /\ \A raw \in Raws(SEV) :
             (Did("set", SEV) /\ Set(SEV, raw)) =>
                IF raw = None \/ raw.i \in 0..2
                THEN last'.ok /\ values'[SEV] = raw
                ELSE ~last'.ok /\ values'[SEV] = values[SEV] ]_vars

C9_Witness ==
    /\ pc = "ready"
    /\ last = Op("set", SEV, FALSE)
    /\ values[SEV] = PyInt(2)

\* the platform bucket as documented: 'win' for identifiers starting with
\* 'win', 'mac' for those starting with 'darwin', 'linux' for all others
Bucket(sysplatform) ==
    IF startswith(sysplatform, S_win) THEN S_win
    ELSE IF startswith(sysplatform, S_darwin) THEN S_mac
    ELSE S_linux

\* C10: the tkpath default is resolved once, at registration: the TKPATH
\* value if the variable is present, else lib/<platform> if that directory
\* exists and holds more than 20 entries, else None; later changes of the
\* environment do not change it
C10_TkpathDefault ==
    pc # "start" =>
       /\ "tkpath" \in DOMAIN defaults
       /\ defaults["tkpath"] =
             IF environ0["TKPATH"] # None THEN environ0["TKPATH"]
             ELSE IF /\ listing[Bucket(platform)] # NoDir
                     /\ listing[Bucket(platform)] > 20
             THEN LibPath(Bucket(platform))
             ELSE None

C10_Witness ==
    /\ pc = "ready"
    /\ platform = S_cygwin
    /\ environ0["TKPATH"] = None
    /\ environ["TKPATH"] = Str(S_usr_tk)
    /\ listing[S_linux] = 21
    /\ defaults["tkpath"] = LibPath(S_linux)

====
